---- MODULE Spec2Model ----
(***************************************************************************)
(* Raw segments of the sqlfluff parser (core/parser/segments/raw.py).      *)
(*                                                                         *)
(* Encoding of Python values:                                              *)
(*   str             a sequence of one-character strings ("" is << >>)     *)
(*   list / tuple    a sequence                                            *)
(*   Optional[T]     None is << >>, a value v is << v >>                   *)
(*   type names      TLA+ strings (only compared, and tested for "")       *)
(*   UUID            a natural number; uuid4() hands out a fresh one       *)
(***************************************************************************)
EXTENDS Naturals, Sequences, FiniteSets

VARIABLES heap, uuid4_count, last, frame, trimmed, fixes

vars == <<heap, uuid4_count, last, frame, trimmed, fixes>>

\* ------------------------------------------------------------ bounds

\* The number of segment objects the edit model allocates.
MaxSegs == 2

\* The longest raw text raw_trimmed() is run on.
MaxTrimRawLen == 3
\* The number of entries of trim_start and trim_chars together.
MaxTrimEntries == 3

\* The number of type names handed to one is_type() call.
MaxTypeNames == 2

\* The number of segment objects (raw and composite) of the tree model.
MaxTreeObjs == 4
\* The number of children a composite is built from.
MaxChildren == 2

\* The number of fixes proposed before the resolver runs.
MaxFixes == 3

\* ------------------------------------------------------------ Python values

None == << >>

Some(v) == << v >>

\* Python truthiness of an Optional str, list or tuple: None and the empty
\* value are both falsy.
Truthy(opt) == opt # None /\ opt[1] # << >>

\* Python truthiness of an Optional type name: None and "" are falsy.
TruthyName(opt) == opt # None /\ opt[1] # ""

Chars == {"a", "b"}

RECURSIVE TextsOfLen(_)
TextsOfLen(n) ==
    IF n = 0 THEN {<< >>}
    ELSE {<<c>> \o t : c \in Chars, t \in TextsOfLen(n - 1)}

TextsUpTo(n) == UNION {TextsOfLen(k) : k \in 0..n}

Option(S) == {None} \cup {Some(v) : v \in S}

\* ------------------------------------------------------------ classes

BaseClass == "BaseSegment"

RawClasses ==
    {"RawSegment", "CodeSegment", "UnlexableSegment", "CommentSegment",
     "WhitespaceSegment", "NewlineSegment", "KeywordSegment", "SymbolSegment"}

\* A mutant of Parent: NewlineSegment made a kind of WhitespaceSegment.
Parent_NewlineUnderWhitespace(cls) ==
    CASE cls = "RawSegment" -> BaseClass
      [] cls = "CodeSegment" -> "RawSegment"
      [] cls = "UnlexableSegment" -> "CodeSegment"
      [] cls = "CommentSegment" -> "RawSegment"
      [] cls = "WhitespaceSegment" -> "RawSegment"
      [] cls = "NewlineSegment" -> "WhitespaceSegment"
      [] cls = "KeywordSegment" -> "CodeSegment"
      [] cls = "SymbolSegment" -> "CodeSegment"

\* The base class each class statement names.
Parent(cls) ==
    CASE cls = "RawSegment" -> BaseClass
      [] cls = "CodeSegment" -> "RawSegment"
      [] cls = "UnlexableSegment" -> "CodeSegment"
      [] cls = "CommentSegment" -> "RawSegment"
      [] cls = "WhitespaceSegment" -> "RawSegment"
      [] cls = "NewlineSegment" -> "RawSegment"
      [] cls = "KeywordSegment" -> "CodeSegment"
      [] cls = "SymbolSegment" -> "CodeSegment"

\* The attributes each class body assigns itself (a record holds only the
\* attributes the class states; the others are inherited).
ClassBody(cls) ==
    CASE cls = "RawSegment" ->
            [type |-> "raw", _is_code |-> TRUE, _is_comment |-> FALSE,
             _is_whitespace |-> FALSE, _default_raw |-> << >>]
      [] cls = "CodeSegment" -> [pass |-> TRUE]
      [] cls = "UnlexableSegment" -> [type |-> "unlexable"]
      [] cls = "CommentSegment" ->
            [type |-> "comment", _is_code |-> FALSE, _is_comment |-> TRUE]
      [] cls = "WhitespaceSegment" ->
            [type |-> "whitespace", _is_whitespace |-> TRUE, _is_code |-> FALSE,
             _is_comment |-> FALSE, _default_raw |-> <<" ">>]
      [] cls = "NewlineSegment" ->
            [type |-> "newline", _is_whitespace |-> TRUE, _is_code |-> FALSE,
             _is_comment |-> FALSE, _default_raw |-> <<"\n">>]
      [] cls = "KeywordSegment" -> [type |-> "keyword"]
      [] cls = "SymbolSegment" -> [type |-> "symbol"]

\* Python attribute lookup along the (single-inheritance) MRO, for the
\* attributes RawSegment itself defines.
RECURSIVE ClassAttr(_, _)
ClassAttr(cls, attr) ==
    IF attr \in DOMAIN ClassBody(cls) THEN ClassBody(cls)[attr]
    ELSE ClassAttr(Parent(cls), attr)

\* ------------------------------------------------------------ construction

\* RawSegment.__init__: the object's fields after construction. fresh is the
\* value uuid4() returns when it is called.
RawSegment__init__(cls, raw, pos_marker, type, trim_start, trim_chars, sf, uuid, fresh) ==
    [cls |-> cls,
     raw |-> IF raw # None THEN raw[1] ELSE ClassAttr(cls, "_default_raw"),
     pos_marker |-> pos_marker,
     segments |-> << >>,
     surrogate_type |-> type,
     trim_start |-> trim_start,
     trim_chars |-> trim_chars,
     source_fixes |-> sf,
     uuid |-> IF uuid # None THEN uuid[1] ELSE fresh]

\* KeywordSegment.__init__: no trim rules and no uuid are passed on.
KeywordSegment__init__(cls, raw, pos_marker, type, source_fixes, fresh) ==
    RawSegment__init__(cls, raw, pos_marker, type, None, None, source_fixes,
                       None, fresh)

\* cls(raw=..., pos_marker=..., type=..., trim_start=..., trim_chars=...,
\* source_fixes=...) for a raw segment class: KeywordSegment and its
\* subclasses take no trim rules.
IsKeywordClass(cls) == cls = "KeywordSegment"

\* RawSegment.source_fixes (property).
source_fixes(self) ==
    IF Truthy(self.source_fixes) THEN self.source_fixes[1] ELSE << >>

\* ------------------------------------------------------------ edit

\* RawSegment.edit with the text argument ignored.
RawSegment_edit_KeepsText(self, raw, new_source_fixes, fresh) ==
    RawSegment__init__(
        self.cls,
        Some(self.raw),
        self.pos_marker,
        self.surrogate_type,
        self.trim_start,
        self.trim_chars,
        Some(IF Truthy(new_source_fixes) THEN new_source_fixes[1]
             ELSE source_fixes(self)),
        None,
        fresh)

\* RawSegment.edit with the position marker left out.
RawSegment_edit_DropsPos(self, raw, new_source_fixes, fresh) ==
    RawSegment__init__(
        self.cls,
        Some(IF Truthy(raw) THEN raw[1] ELSE self.raw),
        None,
        self.surrogate_type,
        self.trim_start,
        self.trim_chars,
        Some(IF Truthy(new_source_fixes) THEN new_source_fixes[1]
             ELSE source_fixes(self)),
        None,
        fresh)

\* RawSegment.edit with the uuid copied from self.
RawSegment_edit_CopiesUuid(self, raw, new_source_fixes, fresh) ==
    RawSegment__init__(
        self.cls,
        Some(IF Truthy(raw) THEN raw[1] ELSE self.raw),
        self.pos_marker,
        self.surrogate_type,
        self.trim_start,
        self.trim_chars,
        Some(IF Truthy(new_source_fixes) THEN new_source_fixes[1]
             ELSE source_fixes(self)),
        Some(self.uuid),
        fresh)

\* RawSegment.edit with trim_start passed for both trim rules.
RawSegment_edit_MixesTrims(self, raw, new_source_fixes, fresh) ==
    RawSegment__init__(
        self.cls,
        Some(IF Truthy(raw) THEN raw[1] ELSE self.raw),
        self.pos_marker,
        self.surrogate_type,
        self.trim_start,
        self.trim_start,
        Some(IF Truthy(new_source_fixes) THEN new_source_fixes[1]
             ELSE source_fixes(self)),
        None,
        fresh)

\* RawSegment.edit.
RawSegment_edit(self, raw, new_source_fixes, fresh) ==
    RawSegment__init__(
        self.cls,
        Some(IF Truthy(raw) THEN raw[1] ELSE self.raw),
        self.pos_marker,
        self.surrogate_type,
        self.trim_start,
        self.trim_chars,
        Some(IF Truthy(new_source_fixes) THEN new_source_fixes[1]
             ELSE source_fixes(self)),
        None,
        fresh)

\* KeywordSegment.edit.
KeywordSegment_edit(self, raw, new_source_fixes, fresh) ==
    KeywordSegment__init__(
        self.cls,
        Some(IF Truthy(raw) THEN raw[1] ELSE self.raw),
        self.pos_marker,
        self.surrogate_type,
        Some(IF Truthy(new_source_fixes) THEN new_source_fixes[1]
             ELSE source_fixes(self)),
        fresh)

\* A mutant of edit: the segment is edited in place and handed back.
edit_ReturnsSelf(self, raw, new_source_fixes, fresh) == self

\* self.edit(raw, source_fixes), dispatched on the class of self.
edit(self, raw, new_source_fixes, fresh) ==
    IF IsKeywordClass(self.cls)
    THEN KeywordSegment_edit(self, raw, new_source_fixes, fresh)
    ELSE RawSegment_edit(self, raw, new_source_fixes, fresh)

\* uuid4(): a value no earlier call returned.
uuid4 == uuid4_count + 1

\* ------------------------------------------------------------ the edit model

\* What the callers of the edit model pass.
EditClasses == {"RawSegment", "KeywordSegment", "WhitespaceSegment"}
PosMarkers == {Some(1), Some(2)}
TypeNames == {None, Some("bar")}
TrimRules == {<<None, None>>, <<Some(<<<<"a">>>>), Some(<<<<"b">>>>)>>}
SourceFixLists == {<< >>, <<"f1">>, <<"f2">>}
CtorTexts == {<< >>, <<"a">>}
EditTexts == {<< >>, <<"a">>, <<"b">>}

NoCall == [op |-> "none", self |-> 0, before |-> None, raw |-> None,
           source_fixes |-> None, ret |-> 0, names |-> {}, result |-> FALSE,
           types |-> {}, info |-> << >>, conflicts |-> {}, target |-> 0,
           path |-> << >>, ancestors |-> << >>, parsed |-> << >>,
           text |-> << >>, leaves |-> << >>,
           flags |-> [is_code |-> FALSE, is_comment |-> FALSE,
                      is_whitespace |-> FALSE]]

NoFrame == [pc |-> "idle", self |-> 0, raw_buff |-> << >>, k |-> 0]

Init ==
    /\ heap = << >>
    /\ uuid4_count = 0
    /\ last = NoCall
    /\ frame = NoFrame
    /\ trimmed = << >>
    /\ fixes = << >>

\* cls(raw, pos_marker, type, trim_start, trim_chars, source_fixes) with no
\* uuid argument; KeywordSegment takes (raw, pos_marker, type, source_fixes).
Construct(cls, raw, pos_marker, type, trims, sf) ==
    /\ Len(heap) < MaxSegs
    /\ heap' = Append(heap,
            IF IsKeywordClass(cls)
            THEN KeywordSegment__init__(cls, raw, pos_marker, type, sf, uuid4)
            ELSE RawSegment__init__(cls, raw, pos_marker, type, trims[1],
                                    trims[2], sf, None, uuid4))
    /\ uuid4_count' = uuid4_count + 1
    /\ last' = [NoCall EXCEPT !.op = "construct", !.ret = Len(heap) + 1]
    /\ UNCHANGED <<frame, trimmed, fixes>>

\* heap[i].edit(raw, source_fixes); the returned segment is a new object.
Edit(i, raw, sf) ==
    /\ Len(heap) < MaxSegs
    /\ heap' = Append(heap, edit(heap[i], raw, sf, uuid4))
    /\ uuid4_count' = uuid4_count + 1
    /\ last' = [NoCall EXCEPT !.op = "edit", !.self = i,
                               !.before = Some(heap[i]), !.raw = raw,
                               !.source_fixes = sf, !.ret = Len(heap) + 1]
    /\ UNCHANGED <<frame, trimmed, fixes>>

Next ==
    \/ \E cls \in EditClasses, raw \in Option(CtorTexts), pos \in PosMarkers,
          type \in TypeNames, trims \in TrimRules,
          sf \in {None, Some(<<"f1">>)} :
            Construct(cls, raw, pos, type, trims, sf)
    \/ \E i \in DOMAIN heap, raw \in Option(EditTexts),
          sf \in Option(SourceFixLists) :
            Edit(i, raw, sf)

Spec == Init /\ [][Next]_vars

\* ------------------------------------------------------------ edit: claims

\* The segment the last edit() was called on, as it was before the call,
\* and the segment the call returned.
EditSelf == last.before[1]
EditRet == heap[last.ret]

\* C1: for every raw segment s and every string x, the empty string
\* included, s.edit(x) returns a segment whose raw text is x.
C1_EditReturnsGivenText ==
    (last.op = "edit" /\ last.raw # None) => EditRet.raw = last.raw[1]

\* C2: all segments that exist have pairwise distinct uuids, the segment
\* edit() returns never carries the uuid of the segment it was called on,
\* and no step changes the uuid of a segment that already exists.
C2_UuidsDistinct ==
    /\ [](\A i \in DOMAIN heap : \A j \in DOMAIN heap :
            i # j => heap[i].uuid # heap[j].uuid)
    /\ [](last.op = "edit" => EditRet.uuid # EditSelf.uuid)
    /\ [][\A i \in DOMAIN heap :
            i \in DOMAIN heap' /\ heap'[i].uuid = heap[i].uuid]_vars

C2_Witness ==
    /\ last.op = "edit"
    /\ Len(heap) >= 2
    /\ last.ret = Len(heap)

\* C3: the segment edit() returns has the class, position marker, surrogate
\* type, trim_start and trim_chars of the segment it was called on, and that
\* segment is the same after the call as before it.
C3_EditFrame ==
    last.op = "edit" =>
        /\ EditRet.cls = EditSelf.cls
        /\ EditRet.pos_marker = EditSelf.pos_marker
        /\ EditRet.surrogate_type = EditSelf.surrogate_type
        /\ EditRet.trim_start = EditSelf.trim_start
        /\ EditRet.trim_chars = EditSelf.trim_chars
        /\ heap[last.self] = EditSelf

C3_Witness ==
    /\ last.op = "edit"
    /\ EditSelf.cls = "WhitespaceSegment"
    /\ EditSelf.trim_start # None
    /\ EditSelf.trim_chars # EditSelf.trim_start
    /\ EditSelf.surrogate_type # None
    /\ Truthy(last.raw)
    /\ Truthy(last.source_fixes)
    /\ EditRet.raw # EditSelf.raw

\* C4: edit() called with a source-fix list F, the empty list included,
\* returns a segment whose source_fixes is F; with the source-fix argument
\* omitted the source_fixes are those of the segment it was called on; with
\* the text argument omitted the raw text is that of the segment.
C4_EditSourceFixes ==
    last.op = "edit" =>
        /\ last.source_fixes # None =>
                source_fixes(EditRet) = last.source_fixes[1]
        /\ last.source_fixes = None =>
                source_fixes(EditRet) = source_fixes(EditSelf)
        /\ last.raw = None => EditRet.raw = EditSelf.raw


\* ------------------------------------------------------------ raw_trimmed

\* str.startswith and str.endswith.
StartsWith(s, prefix) ==
    Len(prefix) <= Len(s) /\ SubSeq(s, 1, Len(prefix)) = prefix

EndsWith(s, suffix) ==
    Len(suffix) <= Len(s) /\ SubSeq(s, Len(s) - Len(suffix) + 1, Len(s)) = suffix

\* s[n:] for n >= 0.
SliceFrom(s, n) == SubSeq(s, n + 1, Len(s))

\* s[:-n] for n >= 0; s[:-0] is s[:0], the empty string.
SliceToMinus(s, n) ==
    IF n = 0 THEN << >>
    ELSE IF n >= Len(s) THEN << >>
    ELSE SubSeq(s, 1, Len(s) - n)

\* The segment the running raw_trimmed() call was made on.
TrimSelf == heap[frame.self]

\* s.raw_trimmed() is called (line 156): raw_buff = self.raw.
TrimCall(i) ==
    /\ frame.pc = "idle"
    /\ trimmed[i] = None
    /\ frame' = [pc |-> "L157", self |-> i, raw_buff |-> heap[i].raw, k |-> 0]
    /\ UNCHANGED <<heap, uuid4_count, last, trimmed, fixes>>

\* Line 157: if self.trim_start.
TrimL157 ==
    /\ frame.pc = "L157"
    /\ frame' = IF Truthy(TrimSelf.trim_start)
                THEN [frame EXCEPT !.pc = "L158", !.k = 1]
                ELSE [frame EXCEPT !.pc = "L161"]
    /\ UNCHANGED <<heap, uuid4_count, last, trimmed, fixes>>

\* Line 158: for seq in self.trim_start (k is the position of seq).
TrimL158 ==
    /\ frame.pc = "L158"
    /\ frame' = IF frame.k <= Len(TrimSelf.trim_start[1])
                THEN [frame EXCEPT !.pc = "L159"]
                ELSE [frame EXCEPT !.pc = "L161"]
    /\ UNCHANGED <<heap, uuid4_count, last, trimmed, fixes>>

\* Lines 159-160 as a while: a matching entry is tried again.
TrimL159_Retries ==
    /\ frame.pc = "L159"
    /\ LET seq == TrimSelf.trim_start[1][frame.k] IN
       frame' = IF StartsWith(frame.raw_buff, seq) /\ seq # << >>
                THEN [frame EXCEPT !.raw_buff = SliceFrom(@, Len(seq))]
                ELSE [frame EXCEPT !.pc = "L158", !.k = @ + 1]
    /\ UNCHANGED <<heap, uuid4_count, last, trimmed, fixes>>

\* Lines 159-160: if raw_buff.startswith(seq): raw_buff = raw_buff[len(seq):].
TrimL159 ==
    /\ frame.pc = "L159"
    /\ LET seq == TrimSelf.trim_start[1][frame.k] IN
       frame' = [frame EXCEPT
                    !.pc = "L158",
                    !.k = @ + 1,
                    !.raw_buff = IF StartsWith(@, seq)
                                 THEN SliceFrom(@, Len(seq)) ELSE @]
    /\ UNCHANGED <<heap, uuid4_count, last, trimmed, fixes>>

\* Lines 161-162 with the reset of raw_buff left out.
TrimL161_NoReset ==
    /\ frame.pc = "L161"
    /\ frame' = IF Truthy(TrimSelf.trim_chars)
                THEN [frame EXCEPT !.pc = "L164", !.k = 1]
                ELSE [frame EXCEPT !.pc = "L172"]
    /\ UNCHANGED <<heap, uuid4_count, last, trimmed, fixes>>

\* Lines 161-162: if self.trim_chars: raw_buff = self.raw.
TrimL161 ==
    /\ frame.pc = "L161"
    /\ frame' = IF Truthy(TrimSelf.trim_chars)
                THEN [frame EXCEPT !.pc = "L164", !.k = 1,
                                   !.raw_buff = TrimSelf.raw]
                ELSE [frame EXCEPT !.pc = "L172"]
    /\ UNCHANGED <<heap, uuid4_count, last, trimmed, fixes>>

\* Line 164: for seq in self.trim_chars (k is the position of seq).
TrimL164 ==
    /\ frame.pc = "L164"
    /\ frame' = IF frame.k <= Len(TrimSelf.trim_chars[1])
                THEN [frame EXCEPT !.pc = "L166"]
                ELSE [frame EXCEPT !.pc = "L171"]
    /\ UNCHANGED <<heap, uuid4_count, last, trimmed, fixes>>

\* Line 166: while raw_buff.startswith(seq).
TrimL166 ==
    /\ frame.pc = "L166"
    /\ frame' = IF StartsWith(frame.raw_buff, TrimSelf.trim_chars[1][frame.k])
                THEN [frame EXCEPT !.pc = "L167"]
                ELSE [frame EXCEPT !.pc = "L169"]
    /\ UNCHANGED <<heap, uuid4_count, last, trimmed, fixes>>

\* Line 167: raw_buff = raw_buff[len(seq):].
TrimL167 ==
    /\ frame.pc = "L167"
    /\ frame' = [frame EXCEPT
                    !.pc = "L166",
                    !.raw_buff =
                        SliceFrom(@, Len(TrimSelf.trim_chars[1][frame.k]))]
    /\ UNCHANGED <<heap, uuid4_count, last, trimmed, fixes>>

\* Line 169: while raw_buff.endswith(seq); when it fails the for loop goes on.
TrimL169 ==
    /\ frame.pc = "L169"
    /\ frame' = IF EndsWith(frame.raw_buff, TrimSelf.trim_chars[1][frame.k])
                THEN [frame EXCEPT !.pc = "L170"]
                ELSE [frame EXCEPT !.pc = "L164", !.k = @ + 1]
    /\ UNCHANGED <<heap, uuid4_count, last, trimmed, fixes>>

\* Line 170: raw_buff = raw_buff[:-len(seq)].
TrimL170 ==
    /\ frame.pc = "L170"
    /\ frame' = [frame EXCEPT
                    !.pc = "L169",
                    !.raw_buff =
                        SliceToMinus(@, Len(TrimSelf.trim_chars[1][frame.k]))]
    /\ UNCHANGED <<heap, uuid4_count, last, trimmed, fixes>>

\* Lines 171 and 172: return raw_buff.
TrimReturn ==
    /\ frame.pc \in {"L171", "L172"}
    /\ trimmed' = [trimmed EXCEPT ![frame.self] = Some(frame.raw_buff)]
    /\ frame' = NoFrame
    /\ UNCHANGED <<heap, uuid4_count, last, fixes>>

\* The trim rules raw_trimmed() is run with: tuples of these entries.
TrimEntries == {<< >>, <<"a">>, <<"b">>, <<"a", "b">>}

RECURSIVE TuplesOfLen(_)
TuplesOfLen(n) ==
    IF n = 0 THEN {<< >>}
    ELSE {<<e>> \o t : e \in TrimEntries, t \in TuplesOfLen(n - 1)}

TrimTuples == Option(UNION {TuplesOfLen(n) : n \in 0..MaxTrimEntries})

TupleLen(opt) == IF opt = None THEN 0 ELSE Len(opt[1])

\* Two segments are constructed: one with both trim rules as drawn, and one
\* with the same text and trim_chars and no trim_start.
TrimInit ==
    /\ \E raw \in TextsUpTo(MaxTrimRawLen), ts \in TrimTuples, tc \in TrimTuples :
          /\ TupleLen(ts) + TupleLen(tc) <= MaxTrimEntries
          /\ heap = << RawSegment__init__("RawSegment", Some(raw), Some(1), None,
                                          ts, tc, None, None, 1),
                       RawSegment__init__("RawSegment", Some(raw), Some(1), None,
                                          None, tc, None, None, 2) >>
    /\ uuid4_count = 2
    /\ last = NoCall
    /\ frame = NoFrame
    /\ trimmed = <<None, None>>
    /\ fixes = << >>

TrimStep ==
    \/ TrimL157
    \/ TrimL158
    \/ TrimL159
    \/ TrimL161
    \/ TrimL164
    \/ TrimL166
    \/ TrimL167
    \/ TrimL169
    \/ TrimL170
    \/ TrimReturn

TrimNext ==
    \/ \E i \in DOMAIN heap : TrimCall(i)
    \/ TrimStep

TrimSpec == TrimInit /\ [][TrimNext]_vars

\* A call that has started keeps running: the interpreter executes the next
\* statement of raw_trimmed() whenever there is one.
FairTrimSpec == TrimSpec /\ WF_vars(TrimStep)

\* ------------------------------------------------------------ raw_trimmed: claims

\* C5: with a non-empty trim_start and a non-empty trim_chars, raw_trimmed()
\* returns what it returns for a segment with the same text and trim_chars
\* and no trim_start.
C5_TrimPrecedence ==
    ( /\ Truthy(heap[1].trim_start)
      /\ Truthy(heap[1].trim_chars)
      /\ heap[2].raw = heap[1].raw
      /\ heap[2].trim_chars = heap[1].trim_chars
      /\ heap[2].trim_start = None
      /\ trimmed[1] # None
      /\ trimmed[2] # None )
    => trimmed[1] = trimmed[2]

\* "ab" with trim_start ("a",) and trim_chars ("b",): the result is "a",
\* which trim_start alone would have removed.
C5_Witness ==
    /\ heap[1].raw = <<"a", "b">>
    /\ heap[1].trim_start = Some(<< <<"a">> >>)
    /\ heap[1].trim_chars = Some(<< <<"b">> >>)
    /\ heap[2].trim_start = None
    /\ trimmed[1] = Some(<<"a">>)
    /\ trimmed[2] = Some(<<"a">>)

\* C6: the string raw_trimmed() returns neither starts with nor ends with
\* any entry of trim_chars, for a trim_chars of one or of several entries.
C6_NoEntryLeftAtEnds ==
    \A i \in DOMAIN heap :
        (trimmed[i] # None /\ Truthy(heap[i].trim_chars)) =>
            \A k \in DOMAIN heap[i].trim_chars[1] :
                /\ ~StartsWith(trimmed[i][1], heap[i].trim_chars[1][k])
                /\ ~EndsWith(trimmed[i][1], heap[i].trim_chars[1][k])

\* C7: every raw_trimmed() call returns, whatever the text and the trim
\* rules are (tuples that hold the empty string included).
C7_RawTrimmedReturns == (frame.pc # "idle") ~> (frame.pc = "idle")


\* One walk over entries in declared order: each entry is taken off the
\* front of the running text, once, if the text starts with it when its
\* turn comes.
RECURSIVE WalkOnce(_, _)
WalkOnce(s, entries) ==
    IF entries = << >> THEN s
    ELSE WalkOnce(IF StartsWith(s, Head(entries))
                  THEN SliceFrom(s, Len(Head(entries))) ELSE s,
                  Tail(entries))

\* C17: with no trim_chars and a non-empty trim_start, raw_trimmed()
\* returns the text left by one walk over the entries of trim_start in
\* declared order, each entry taken off the front at most once, if the
\* running text starts with it when its turn comes; the result is a suffix
\* of raw; and no step of the call changes a segment.
C17_TrimStartOnePass ==
    /\ [](\A i \in DOMAIN heap :
            ( /\ trimmed[i] # None
              /\ Truthy(heap[i].trim_start)
              /\ ~Truthy(heap[i].trim_chars) ) =>
                /\ trimmed[i][1] = WalkOnce(heap[i].raw, heap[i].trim_start[1])
                /\ EndsWith(heap[i].raw, trimmed[i][1]))
    /\ [][heap' = heap]_vars

\* "aab" with trim_start ("a",): one "a" goes, the result is "ab"; and the
\* twin without trim rules returns "aab".
C17_Witness ==
    /\ heap[1].raw = <<"a", "a", "b">>
    /\ heap[1].trim_start = Some(<< <<"a">> >>)
    /\ heap[1].trim_chars = None
    /\ trimmed[1] = Some(<<"a", "b">>)
    /\ heap[1].raw = heap[2].raw

\* ------------------------------------------------------------ flags

\* A mutant of is_code: whatever is not a comment counts as code.
is_code_NotComment(self) == ~ClassAttr(self.cls, "_is_comment")

\* RawSegment.is_code, is_comment, is_whitespace: the class attributes.
is_code(self) == ClassAttr(self.cls, "_is_code")

is_comment(self) == ClassAttr(self.cls, "_is_comment")

is_whitespace(self) == ClassAttr(self.cls, "_is_whitespace")

\* ------------------------------------------------------------ types

\* BaseSegment.type.
BaseSegment_type == "base"

\* cls._class_types: the types the class and its base classes declare.
RECURSIVE class_types_of(_)
class_types_of(cls) ==
    IF cls = BaseClass THEN {BaseSegment_type}
    ELSE {ClassAttr(cls, "type")} \cup class_types_of(Parent(cls))

\* BaseSegment.class_is_type(*seg_type).
class_is_type(cls, seg_type) == \E t \in seg_type : t \in class_types_of(cls)

\* RawSegment.class_types (property).
class_types(self) ==
    (IF TruthyName(self.surrogate_type) THEN {self.surrogate_type[1]} ELSE {})
        \cup class_types_of(self.cls)

\* RawSegment.get_type.
get_type(self) ==
    IF TruthyName(self.surrogate_type) THEN self.surrogate_type[1]
    ELSE ClassAttr(self.cls, "type")

\* RawSegment.is_type with the surrogate type left out.
is_type_NoSurrogate(self, seg_type) == class_is_type(self.cls, seg_type)

\* RawSegment.is_type(*seg_type).
is_type(self, seg_type) ==
    IF TruthyName(self.surrogate_type) /\ self.surrogate_type[1] \in seg_type
    THEN TRUE
    ELSE class_is_type(self.cls, seg_type)

\* The surrogate types segments are built with and the names asked for.
SurrogateTypes == {None, Some(""), Some("bar"), Some("raw"), Some("whitespace")}
AskedNames == {"base", "raw", "keyword", "whitespace", "newline", "bar", ""}

\* One segment of any raw segment class, with any surrogate type.
TypeInit ==
    /\ \E cls \in RawClasses, type \in SurrogateTypes :
          heap = << IF IsKeywordClass(cls)
                    THEN KeywordSegment__init__(cls, None, Some(1), type, None, 1)
                    ELSE RawSegment__init__(cls, None, Some(1), type, None, None,
                                            None, None, 1) >>
    /\ uuid4_count = 1
    /\ last = NoCall
    /\ frame = NoFrame
    /\ trimmed = << >>
    /\ fixes = << >>

\* heap[i].is_type(*names).
IsTypeCall(i, names) ==
    /\ last' = [NoCall EXCEPT !.op = "is_type", !.self = i, !.names = names,
                               !.result = is_type(heap[i], names)]
    /\ UNCHANGED <<heap, uuid4_count, frame, trimmed, fixes>>

\* heap[i].class_types.
ClassTypesCall(i) ==
    /\ last' = [NoCall EXCEPT !.op = "class_types", !.self = i,
                               !.types = class_types(heap[i])]
    /\ UNCHANGED <<heap, uuid4_count, frame, trimmed, fixes>>

\* heap[i].is_code, heap[i].is_comment, heap[i].is_whitespace.
FlagsCall(i) ==
    /\ last' = [NoCall EXCEPT !.op = "flags", !.self = i,
                               !.flags = [is_code |-> is_code(heap[i]),
                                          is_comment |-> is_comment(heap[i]),
                                          is_whitespace |-> is_whitespace(heap[i])]]
    /\ UNCHANGED <<heap, uuid4_count, frame, trimmed, fixes>>

TypeNext ==
    \/ \E i \in DOMAIN heap :
          \E names \in {n \in SUBSET AskedNames :
                            Cardinality(n) \in 1..MaxTypeNames} :
              IsTypeCall(i, names)
    \/ \E i \in DOMAIN heap : ClassTypesCall(i)
    \/ \E i \in DOMAIN heap : FlagsCall(i)

TypeSpec == TypeInit /\ [][TypeNext]_vars

\* ------------------------------------------------------------ types: claims

\* The class of a segment and the classes it inherits from, BaseSegment
\* included.
RECURSIVE Lineage(_)
Lineage(cls) ==
    IF cls = BaseClass THEN {BaseClass} ELSE {cls} \cup Lineage(Parent(cls))

\* The type a class statement declares, if it declares one.
DeclaredTypes(cls) ==
    IF cls = BaseClass THEN {BaseSegment_type}
    ELSE IF "type" \in DOMAIN ClassBody(cls) THEN {ClassBody(cls).type}
    ELSE {}

\* C8: is_type(names) is true exactly when the surrogate type, if one is
\* set (a non-empty name), is among the names or the type declared by the
\* segment's class or by a class it inherits from is among them; that is,
\* exactly when names meets class_types; and class_types is the inherited
\* type set plus the surrogate type.
C8_IsTypeMatchesClassTypes ==
    LET self == heap[last.self]
        inherited == UNION {DeclaredTypes(c) : c \in Lineage(self.cls)}
        surrogate == IF TruthyName(self.surrogate_type)
                     THEN {self.surrogate_type[1]} ELSE {}
    IN  /\ last.op = "is_type" =>
            /\ last.result <=> (last.names \cap (surrogate \cup inherited) # {})
            /\ last.result <=> (last.names \cap class_types(self) # {})
        /\ last.op = "class_types" =>
            /\ last.types = inherited \cup surrogate
            /\ (self.cls = "KeywordSegment" /\ self.surrogate_type = Some("bar"))
                  => last.types = {"base", "raw", "keyword", "bar"}

\* A KeywordSegment built with type "bar" is asked is_type("bar"): only the
\* surrogate type makes the answer true.
C8_Witness ==
    /\ last.op = "is_type"
    /\ heap[last.self].cls = "KeywordSegment"
    /\ heap[last.self].surrogate_type = Some("bar")
    /\ last.names = {"bar"}
    /\ last.result


\* C16: a NewlineSegment is whitespace by its flags (is_whitespace, not
\* is_code, not is_comment) but, built without a surrogate type,
\* is_type("whitespace") is false of it and is_type("whitespace",
\* "newline") is true; and for a segment of any raw segment class is_code
\* holds exactly when neither is_comment nor is_whitespace does.
C16_NewlineIsNotWhitespaceType ==
    /\ last.op = "flags" =>
          /\ last.flags.is_code <=>
                (~last.flags.is_comment /\ ~last.flags.is_whitespace)
          /\ heap[last.self].cls = "NewlineSegment" =>
                /\ last.flags.is_whitespace
                /\ ~last.flags.is_code
                /\ ~last.flags.is_comment
    /\ ( /\ last.op = "is_type"
         /\ heap[last.self].cls = "NewlineSegment"
         /\ heap[last.self].surrogate_type = None ) =>
          /\ last.names = {"whitespace"} => ~last.result
          /\ last.names = {"whitespace", "newline"} => last.result

\* A NewlineSegment without a surrogate type was asked
\* is_type("whitespace") and said no.
C16_Witness ==
    /\ last.op = "is_type"
    /\ heap[last.self].cls = "NewlineSegment"
    /\ heap[last.self].surrogate_type = None
    /\ last.names = {"whitespace"}
    /\ ~last.result

\* ------------------------------------------------------------ composites

\* The composite classes: BaseSegment and the two the tests build trees of.
CompositeClasses == {"BaseSegment", "DummySegment", "DummyAuxSegment"}

\* The type a composite class declares.
CompositeType(cls) ==
    CASE cls = "BaseSegment" -> BaseSegment_type
      [] cls = "DummySegment" -> "dummy"
      [] cls = "DummyAuxSegment" -> "dummy_aux"

IsRaw(seg) == seg.cls \in RawClasses

\* BaseSegment.__init__(segments): a composite holds references (positions
\* in heap) to its children, in order, and an identity of its own.
BaseSegment__init__(cls, segments, fresh) ==
    [cls |-> cls, segments |-> segments, uuid |-> fresh]

\* Segment equality (==): raw segments by text and position marker,
\* composites by declared type and child sequence under equality; the
\* uuid takes no part in it.
RECURSIVE SegEq(_, _)
SegEq(a, b) ==
    IF IsRaw(a) /\ IsRaw(b)
    THEN a.raw = b.raw /\ a.pos_marker = b.pos_marker
    ELSE IF ~IsRaw(a) /\ ~IsRaw(b)
    THEN /\ CompositeType(a.cls) = CompositeType(b.cls)
         /\ Len(a.segments) = Len(b.segments)
         /\ \A k \in DOMAIN a.segments :
                SegEq(heap[a.segments[k]], heap[b.segments[k]])
    ELSE FALSE

\* The objects no composite holds as a child.
Unclaimed ==
    {i \in DOMAIN heap :
        \A j \in DOMAIN heap :
            IsRaw(heap[j]) \/ \A k \in DOMAIN heap[j].segments :
                                  heap[j].segments[k] # i}

\* The child lists a composite can be built from: distinct unclaimed
\* objects, in any order.
ChildLists ==
    {c \in UNION {[1..n -> Unclaimed] : n \in 1..MaxChildren} :
        \A k1 \in DOMAIN c : \A k2 \in DOMAIN c : k1 # k2 => c[k1] # c[k2]}

TreeClasses == {"DummySegment", "DummyAuxSegment"}
TreeTexts == {<<"a">>, <<"b">>}

TreeInit ==
    /\ heap = << >>
    /\ uuid4_count = 0
    /\ last = NoCall
    /\ frame = NoFrame
    /\ trimmed = << >>
    /\ fixes = << >>

\* RawSegment(raw, pos_marker), as the lexer builds its segments.
TreeConstruct(raw, pos_marker) ==
    /\ Len(heap) < MaxTreeObjs
    /\ heap' = Append(heap,
            RawSegment__init__("RawSegment", Some(raw), pos_marker, None, None,
                               None, None, None, uuid4))
    /\ uuid4_count' = uuid4_count + 1
    /\ last' = [NoCall EXCEPT !.op = "construct", !.ret = Len(heap) + 1]
    /\ UNCHANGED <<frame, trimmed, fixes>>

\* heap[i].edit(raw) on a raw segment.
TreeEdit(i, raw) ==
    /\ Len(heap) < MaxTreeObjs
    /\ IsRaw(heap[i])
    /\ heap' = Append(heap, edit(heap[i], raw, None, uuid4))
    /\ uuid4_count' = uuid4_count + 1
    /\ last' = [NoCall EXCEPT !.op = "edit", !.self = i,
                               !.before = Some(heap[i]), !.raw = raw,
                               !.ret = Len(heap) + 1]
    /\ UNCHANGED <<frame, trimmed, fixes>>

\* cls(segments) for a composite class.
Compose(cls, segments) ==
    /\ Len(heap) < MaxTreeObjs
    /\ heap' = Append(heap, BaseSegment__init__(cls, segments, uuid4))
    /\ uuid4_count' = uuid4_count + 1
    /\ last' = [NoCall EXCEPT !.op = "compose", !.ret = Len(heap) + 1]
    /\ UNCHANGED <<frame, trimmed, fixes>>

TreeNext ==
    \/ \E raw \in TreeTexts, pos \in PosMarkers : TreeConstruct(raw, pos)
    \/ \E i \in DOMAIN heap, raw \in Option(TreeTexts) : TreeEdit(i, raw)
    \/ \E cls \in TreeClasses, segments \in ChildLists : Compose(cls, segments)

TreeSpec == TreeInit /\ [][TreeNext]_vars

\* ------------------------------------------------------------ equality: claims

\* C9: two raw segments with equal text and equal position marker compare
\* equal although their uuids differ, so s.edit(s.raw) == s; two composites
\* compare equal exactly when they have the same declared type and
\* pairwise-equal child sequences.
C9_EqualityIgnoresIdentity ==
    /\ \A i \in DOMAIN heap : \A j \in DOMAIN heap :
          (i # j /\ IsRaw(heap[i]) /\ IsRaw(heap[j])
                 /\ heap[i].raw = heap[j].raw
                 /\ heap[i].pos_marker = heap[j].pos_marker)
          => (SegEq(heap[i], heap[j]) /\ heap[i].uuid # heap[j].uuid)
    /\ (last.op = "edit" /\ last.raw = Some(EditSelf.raw))
          => (SegEq(EditRet, EditSelf) /\ EditRet.uuid # EditSelf.uuid)
    /\ \A i \in DOMAIN heap : \A j \in DOMAIN heap :
          (i # j /\ ~IsRaw(heap[i]) /\ ~IsRaw(heap[j]))
          => /\ heap[i].uuid # heap[j].uuid
             /\ SegEq(heap[i], heap[j]) <=>
                  /\ CompositeType(heap[i].cls) = CompositeType(heap[j].cls)
                  /\ Len(heap[i].segments) = Len(heap[j].segments)
                  /\ \A k \in DOMAIN heap[i].segments :
                        SegEq(heap[heap[i].segments[k]],
                              heap[heap[j].segments[k]])

\* s and s.edit(s.raw) each become the only child of a composite of the
\* same class: the two composites are equal, their children are distinct
\* objects.
C9_Witness ==
    /\ Len(heap) = 4
    /\ IsRaw(heap[1])
    /\ IsRaw(heap[2])
    /\ heap[2].uuid # heap[1].uuid
    /\ heap[2].raw = heap[1].raw
    /\ ~IsRaw(heap[3])
    /\ ~IsRaw(heap[4])
    /\ heap[3].segments = <<1>>
    /\ heap[4].segments = <<2>>
    /\ SegEq(heap[3], heap[4])
    /\ last.op = "compose"


\* ------------------------------------------------------------ paths

\* is_code of any segment: a raw segment's flag; a composite is code when
\* one of its children is.
RECURSIVE segment_is_code(_)
segment_is_code(seg) ==
    IF IsRaw(seg) THEN is_code(seg)
    ELSE \E k \in DOMAIN seg.segments : segment_is_code(heap[seg.segments[k]])

\* The indices (from 0) of the code children among the first n children.
RECURSIVE CodeIndicesUpTo(_, _)
CodeIndicesUpTo(seg, n) ==
    IF n = 0 THEN << >>
    ELSE IF segment_is_code(heap[seg.segments[n]])
         THEN Append(CodeIndicesUpTo(seg, n - 1), n - 1)
         ELSE CodeIndicesUpTo(seg, n - 1)

\* The code_idxs of a composite, as the tests' PathSteps show them.
code_indices(seg) == CodeIndicesUpTo(seg, Len(seg.segments))

\* PathStep(segment, idx, len, code_idxs); segment is a reference.
PathStep(segment, idx, len, code_idxs) ==
    [segment |-> segment, idx |-> idx, len |-> len, code_idxs |-> code_idxs]

RECURSIVE path_to(_, _)
RECURSIVE PathFromChild(_, _, _)

\* A mutant of path_to: the steps come out nearest ancestor first.
path_to_BottomUp(r, t) ==
    LET down == IF r = t \/ IsRaw(heap[r]) THEN << >> ELSE PathFromChild(r, t, 1)
    IN  [k \in DOMAIN down |-> down[Len(down) + 1 - k]]

\* heap[r].path_to(heap[t]): depth-first over the children; the empty list
\* when t is r itself or is not found.
path_to(r, t) ==
    IF r = t \/ IsRaw(heap[r]) THEN << >> ELSE PathFromChild(r, t, 1)

\* The loop of path_to over the children of r, from the k-th on.
PathFromChild(r, t, k) ==
    IF k > Len(heap[r].segments) THEN << >>
    ELSE LET c == heap[r].segments[k]
             step == PathStep(r, k - 1, Len(heap[r].segments),
                              code_indices(heap[r]))
             res == path_to(c, t)
         IN  IF c = t THEN <<step>>
             ELSE IF res # << >> THEN <<step>> \o res
             ELSE PathFromChild(r, t, k + 1)

\* A mutant of get_raw_segments: a raw segment reports no raw segments.
RawSegment_get_raw_segments_None(i) == << >>

\* RawSegment.get_raw_segments(): the segment itself.
RawSegment_get_raw_segments(i) == <<i>>

RECURSIVE get_raw_segments(_)
RECURSIVE RawSegmentsUpTo(_, _)

\* get_raw_segments(): the raw segments below a segment, in document order.
get_raw_segments(i) ==
    IF IsRaw(heap[i]) THEN RawSegment_get_raw_segments(i)
    ELSE RawSegmentsUpTo(i, Len(heap[i].segments))

\* The raw segments below the first n children of composite i.
RawSegmentsUpTo(i, n) ==
    IF n = 0 THEN << >>
    ELSE RawSegmentsUpTo(i, n - 1) \o get_raw_segments(heap[i].segments[n])

\* raw_segments_with_ancestors of a composite: each raw segment below it
\* with the path from the composite down to it.
raw_segments_with_ancestors(r) ==
    LET leaves == get_raw_segments(r)
    IN  [n \in DOMAIN leaves |-> <<leaves[n], path_to(r, leaves[n])>>]

\* RawSegment.raw (property): the text the segment holds.
RawSegment_raw(self) == self.raw

RECURSIVE segment_raw(_)
RECURSIVE JoinRawUpTo(_, _)

\* seg.raw of any segment: a composite's is "".join of its children's.
segment_raw(i) ==
    IF IsRaw(heap[i]) THEN RawSegment_raw(heap[i])
    ELSE JoinRawUpTo(i, Len(heap[i].segments))

\* The raw of the first n children of composite i, joined.
JoinRawUpTo(i, n) ==
    IF n = 0 THEN << >>
    ELSE JoinRawUpTo(i, n - 1) \o segment_raw(heap[i].segments[n])

\* The segments at or below r.
RECURSIVE Within(_)
Within(r) ==
    {r} \cup (IF IsRaw(heap[r]) THEN {}
              ELSE UNION {Within(heap[r].segments[k]) :
                            k \in DOMAIN heap[r].segments})

\* The leaves of the trees paths are taken in: class and text.
PathLeaves ==
    {<<"RawSegment", <<"a">>>>, <<"WhitespaceSegment", <<" ">>>>}

\* cls(raw, pos_marker) for a leaf of the trees paths are taken in.
PathConstruct(cls, raw) ==
    /\ Len(heap) < MaxTreeObjs
    /\ heap' = Append(heap,
            RawSegment__init__(cls, Some(raw), Some(1), None, None, None,
                               None, None, uuid4))
    /\ uuid4_count' = uuid4_count + 1
    /\ last' = [NoCall EXCEPT !.op = "construct", !.raw = Some(raw),
                               !.ret = Len(heap) + 1]
    /\ UNCHANGED <<frame, trimmed, fixes>>

\* heap[r].path_to(heap[t]) for a composite r and t at or below it.
PathToCall(r, t) ==
    /\ ~IsRaw(heap[r])
    /\ t \in Within(r)
    /\ last' = [NoCall EXCEPT !.op = "path_to", !.self = r, !.target = t,
                               !.path = path_to(r, t)]
    /\ UNCHANGED <<heap, uuid4_count, frame, trimmed, fixes>>

\* heap[r].raw_segments_with_ancestors for a composite r.
RawSegmentsWithAncestorsCall(r) ==
    /\ ~IsRaw(heap[r])
    /\ last' = [NoCall EXCEPT !.op = "raw_segments_with_ancestors",
                               !.self = r,
                               !.ancestors = raw_segments_with_ancestors(r)]
    /\ UNCHANGED <<heap, uuid4_count, frame, trimmed, fixes>>

\* heap[i].raw for any segment.
RawCall(i) ==
    /\ last' = [NoCall EXCEPT !.op = "raw", !.self = i,
                               !.text = segment_raw(i)]
    /\ UNCHANGED <<heap, uuid4_count, frame, trimmed, fixes>>

\* heap[i].get_raw_segments() for any segment.
GetRawSegmentsCall(i) ==
    /\ last' = [NoCall EXCEPT !.op = "get_raw_segments", !.self = i,
                               !.leaves = get_raw_segments(i)]
    /\ UNCHANGED <<heap, uuid4_count, frame, trimmed, fixes>>

PathNext ==
    \/ \E leaf \in PathLeaves : PathConstruct(leaf[1], leaf[2])
    \/ \E cls \in TreeClasses, segments \in ChildLists : Compose(cls, segments)
    \/ \E r \in DOMAIN heap, t \in DOMAIN heap : PathToCall(r, t)
    \/ \E r \in DOMAIN heap : RawSegmentsWithAncestorsCall(r)
    \/ \E i \in DOMAIN heap : RawCall(i)
    \/ \E i \in DOMAIN heap : GetRawSegmentsCall(i)

PathSpec == TreeInit /\ [][PathNext]_vars

\* ------------------------------------------------------------ paths: claims

\* The composite that holds i as a child, if there is one.
ParentsOf(i) ==
    {j \in DOMAIN heap :
        ~IsRaw(heap[j]) /\ \E k \in DOMAIN heap[j].segments : heap[j].segments[k] = i}

\* The position (from 0) of i among the children of j.
IndexIn(j, i) ==
    (CHOOSE k \in DOMAIN heap[j].segments : heap[j].segments[k] = i) - 1

\* path is the chain of composites from r down to the parent of t, top
\* down: it starts at r, each step's index leads to the next step's
\* composite, the last step's index leads to t, and every step carries
\* the number of children of its composite.
IsChainPath(path, r, t) ==
    /\ Len(path) >= 1
    /\ path[1].segment = r
    /\ \A k \in DOMAIN path :
          LET c == path[k].segment
              nxt == IF k = Len(path) THEN t ELSE path[k + 1].segment
          IN  /\ ~IsRaw(heap[c])
              /\ ParentsOf(nxt) = {c}
              /\ path[k].idx = IndexIn(c, nxt)
              /\ path[k].len = Len(heap[c].segments)

\* The number of composites from t's parent up to r.
RECURSIVE DepthBelow(_, _)
DepthBelow(r, t) ==
    IF r = t THEN 0 ELSE 1 + DepthBelow(r, CHOOSE j \in ParentsOf(t) : TRUE)

\* C12: for a composite root and a proper descendant target, path_to gives
\* one step per composite on the chain from the root down to the target's
\* parent, top down; each step names its composite, the index of the next
\* element of the chain among the composite's children and the number of
\* those children; a child gives one step, a grandchild two.
C12_PathToChain ==
    (last.op = "path_to" /\ last.target # last.self) =>
        /\ IsChainPath(last.path, last.self, last.target)
        /\ Len(last.path) = DepthBelow(last.self, last.target)
        /\ last.self \in ParentsOf(last.target) => Len(last.path) = 1
        /\ ( \E m \in ParentsOf(last.target) : last.self \in ParentsOf(m) )
              => Len(last.path) = 2

\* The tests' tree: root -> mid -> leaf0, leaf1; the path from the root to
\* leaf1 is [(root, 0, 1, ...), (mid, 1, 2, ...)].
C12_Witness ==
    /\ last.op = "path_to"
    /\ Len(heap) = 4
    /\ heap[3].cls = "DummyAuxSegment" /\ heap[3].segments = <<1, 2>>
    /\ heap[4].cls = "DummySegment" /\ heap[4].segments = <<3>>
    /\ last.self = 4
    /\ last.target = 2
    /\ Len(last.path) = 2
    /\ last.path[1].segment = 4 /\ last.path[1].idx = 0 /\ last.path[1].len = 1
    /\ last.path[2].segment = 3 /\ last.path[2].idx = 1 /\ last.path[2].len = 2

\* The steps of every path the last call returned.
ReturnedPaths ==
    IF last.op = "path_to" THEN {last.path}
    ELSE IF last.op = "raw_segments_with_ancestors"
    THEN {last.ancestors[n][2] : n \in DOMAIN last.ancestors}
    ELSE {}

\* The child indices chosen by the first k steps of path.
IndexPath(path, k) == [j \in 1..k |-> path[j].idx]

\* Some raw segment at or below i is declared code by its class.
HoldsCode(i) ==
    \E j \in Within(i) : IsRaw(heap[j]) /\ ClassAttr(heap[j].cls, "_is_code")

\* C13 as stated: the fourth component of the step at depth k is the
\* sequence of child indices from the root to the element chosen at depth
\* k, so it has length k+1 and extends the previous step's by one index.
C13_FourthIsIndexPath ==
    \A path \in ReturnedPaths : \A k \in DOMAIN path :
        path[k].code_idxs = IndexPath(path, k)

\* C13 amended: the fourth component of every step of a path returned by
\* path_to or held in raw_segments_with_ancestors is the ascending sequence
\* of the indices of those children of the step's composite that are code,
\* whatever the target and the depth of the step.
C13_FourthIsCodeIndices ==
    \A path \in ReturnedPaths : \A k \in DOMAIN path :
        LET kids == heap[path[k].segment].segments
            idxs == path[k].code_idxs
        IN  /\ \A a \in DOMAIN idxs : \A b \in DOMAIN idxs :
                  a < b => idxs[a] < idxs[b]
            /\ {idxs[a] : a \in DOMAIN idxs} =
                  {n - 1 : n \in {m \in DOMAIN kids : HoldsCode(kids[m])}}

\* The tree of the raw_segments_with_ancestors test: the first leaf sits
\* under the root's first child and its ancestors are
\* [(root, 0, 2, (0, 1)), (child, 0, 1, (0,))].
C13_Witness ==
    /\ last.op = "raw_segments_with_ancestors"
    /\ Len(heap) = 4
    /\ heap[3].cls = "DummyAuxSegment" /\ heap[3].segments = <<1>>
    /\ heap[4].cls = "DummySegment" /\ heap[4].segments = <<3, 2>>
    /\ last.self = 4
    /\ last.ancestors =
          << <<1, <<PathStep(4, 0, 2, <<0, 1>>), PathStep(3, 0, 1, <<0>>)>> >>,
             <<2, <<PathStep(4, 1, 2, <<0, 1>>)>> >> >>

\* ------------------------------------------------------------ losslessness: claims

\* The texts held by the raw segments refs, joined in order.
RECURSIVE JoinTexts(_)
JoinTexts(refs) ==
    IF refs = << >> THEN << >>
    ELSE heap[Head(refs)].raw \o JoinTexts(Tail(refs))

\* C15: a raw segment holds the text it was built from, has no children
\* and get_raw_segments() of it is [itself]; the raw of a composite is the
\* join, in child order, of the raw of its children, and is the join of
\* the texts of get_raw_segments(); get_raw_segments() of a composite
\* lists each raw segment below it once and nothing else.
C15_Lossless ==
    /\ last.op = "construct" =>
          /\ heap[last.ret].raw = last.raw[1]
          /\ heap[last.ret].segments = << >>
    /\ (last.op = "raw" /\ IsRaw(heap[last.self])) =>
          last.text = heap[last.self].raw
    /\ (last.op = "raw" /\ ~IsRaw(heap[last.self])) =>
          LET kids == heap[last.self].segments
          IN  /\ \E cut \in [0..Len(kids) -> 0..Len(last.text)] :
                    /\ cut[0] = 0
                    /\ cut[Len(kids)] = Len(last.text)
                    /\ \A k \in DOMAIN kids :
                          /\ cut[k - 1] <= cut[k]
                          /\ SubSeq(last.text, cut[k - 1] + 1, cut[k]) =
                                segment_raw(kids[k])
              /\ last.text = JoinTexts(get_raw_segments(last.self))
    /\ (last.op = "get_raw_segments" /\ IsRaw(heap[last.self])) =>
          /\ last.leaves = <<last.self>>
          /\ heap[last.self].segments = << >>
    /\ (last.op = "get_raw_segments" /\ ~IsRaw(heap[last.self])) =>
          /\ {last.leaves[n] : n \in DOMAIN last.leaves} =
                {j \in Within(last.self) : IsRaw(heap[j])}
          /\ \A a \in DOMAIN last.leaves : \A b \in DOMAIN last.leaves :
                a # b => last.leaves[a] # last.leaves[b]
          /\ JoinTexts(last.leaves) = segment_raw(last.self)

\* A composite over the leaves " " and "a", in that order, under a root:
\* the raw of the root is " a".
C15_Witness ==
    /\ last.op = "raw"
    /\ Len(heap) = 4
    /\ heap[1].raw = <<"a">>
    /\ heap[2].raw = <<" ">>
    /\ heap[3].segments = <<2, 1>>
    /\ heap[4].segments = <<3>>
    /\ last.self = 4
    /\ last.text = <<" ", "a">>

\* ------------------------------------------------------------ ephemeral

\* str.upper() on one character.
UpperChar(c) ==
    CASE c = "a" -> "A"
      [] c = "b" -> "B"
      [] OTHER -> c

\* str.upper().
Upper(s) == [k \in DOMAIN s |-> UpperChar(s[k])]

\* A mutant of raw_upper: the text as written.
raw_upper_AsWritten(self) == self.raw

\* RawSegment.raw_upper: self._raw.upper(), computed at construction.
raw_upper(self) == Upper(self.raw)

\* StringParser(template, KeywordSegment).
StringParser(template) == [template |-> template]

\* StringParser.match(segments): the first segment matches when its
\* upper-cased text is the upper-cased template, and is rebuilt as a
\* KeywordSegment; the rest is left unmatched. The new segment takes the
\* identity fresh.
StringParser_matches(grammar, segments) ==
    /\ segments # << >>
    /\ IsRaw(heap[segments[1]])
    /\ raw_upper(heap[segments[1]]) = Upper(grammar.template)

matched_segment(segments, fresh) ==
    KeywordSegment__init__("KeywordSegment", Some(heap[segments[1]].raw),
                           heap[segments[1]].pos_marker, None, None, fresh)

\* EphemeralSegment(segments, pos_marker=None, parse_grammar, ephemeral_name).
EphemeralSegment__init__(segments, parse_grammar, ephemeral_name, fresh) ==
    [cls |-> "EphemeralSegment", segments |-> segments,
     parse_grammar |-> parse_grammar, ephemeral_name |-> ephemeral_name,
     uuid |-> fresh]

\* UnparsableSegment(segments, expected).
UnparsableSegment__init__(segments, expected, fresh) ==
    [cls |-> "UnparsableSegment", segments |-> segments,
     expected |-> expected, uuid |-> fresh]

\* UnparsableSegment.stringify(): the rendered text, in pieces.
stringify(seg) ==
    <<"unparsable", "Expected: '", seg.expected, "'">>

\* The stored grammar consumes all the children of the ephemeral segment.
ParseSucceeds(eph) ==
    /\ StringParser_matches(eph.parse_grammar, eph.segments)
    /\ Len(eph.segments) = 1

EphTexts == {<<"a">>, <<"A">>}
EphWords == {<<"a">>, <<"b">>}
EphNames == {"foo", ""}

\* The children an ephemeral segment can be given: unclaimed raw segments,
\* or none.
EphChildLists ==
    {<< >>} \cup {c \in ChildLists : \A k \in DOMAIN c : IsRaw(heap[c[k]])}

\* RawSegment(raw, pos_marker), as in the tests' raw_seg_list.
EphConstruct(raw) ==
    /\ Len(heap) < MaxTreeObjs
    /\ heap' = Append(heap,
            RawSegment__init__("RawSegment", Some(raw), Some(1), None, None,
                               None, None, None, uuid4))
    /\ uuid4_count' = uuid4_count + 1
    /\ last' = [NoCall EXCEPT !.op = "construct", !.ret = Len(heap) + 1]
    /\ UNCHANGED <<frame, trimmed, fixes>>

\* EphemeralSegment(segments=..., parse_grammar=StringParser(template,
\* KeywordSegment), ephemeral_name=...).
MakeEphemeral(segments, template, ephemeral_name) ==
    /\ Len(heap) < MaxTreeObjs
    /\ heap' = Append(heap,
            EphemeralSegment__init__(segments, StringParser(template),
                                     ephemeral_name, uuid4))
    /\ uuid4_count' = uuid4_count + 1
    /\ last' = [NoCall EXCEPT !.op = "ephemeral", !.ret = Len(heap) + 1]
    /\ UNCHANGED <<frame, trimmed, fixes>>

\* heap[e].parse(ctx): the stored grammar is run over the children; on a
\* match the matched segment is the result, otherwise an UnparsableSegment
\* over the children that expects the ephemeral name. The result is a
\* tuple of references to the one new object.
EphemeralParse(e) ==
    /\ Len(heap) < MaxTreeObjs
    /\ heap[e].cls = "EphemeralSegment"
    /\ heap' = Append(heap,
            IF ParseSucceeds(heap[e])
            THEN matched_segment(heap[e].segments, uuid4)
            ELSE UnparsableSegment__init__(heap[e].segments,
                                           heap[e].ephemeral_name, uuid4))
    /\ uuid4_count' = uuid4_count + 1
    /\ last' = [NoCall EXCEPT !.op = "parse", !.self = e,
                               !.parsed = <<Len(heap) + 1>>]
    /\ UNCHANGED <<frame, trimmed, fixes>>

EphNext ==
    \/ \E raw \in EphTexts : EphConstruct(raw)
    \/ \E segments \in EphChildLists, template \in EphWords, n \in EphNames :
          MakeEphemeral(segments, template, n)
    \/ \E e \in DOMAIN heap : EphemeralParse(e)

EphSpec == TreeInit /\ [][EphNext]_vars

\* ------------------------------------------------------------ ephemeral: claims

\* The pieces "Expected: '", name, "'" stand side by side in text.
ContainsExpected(text, name) ==
    \E k \in 1..(Len(text) - 2) :
        text[k] = "Expected: '" /\ text[k + 1] = name /\ text[k + 2] = "'"

\* Two texts that differ at most in the case of their letters.
SameLetters(s, t) ==
    /\ Len(s) = Len(t)
    /\ \A k \in DOMAIN s :
          {s[k], t[k]} \in {{"a"}, {"A"}, {"b"}, {"a", "A"}}

\* C14: parse() of an ephemeral segment returns a non-empty tuple that
\* holds no EphemeralSegment; when the grammar's word is the text of the
\* only child, letter case aside, the tuple holds the matched
\* KeywordSegment itself, with the child's text; otherwise it holds an
\* UnparsableSegment over the children whose rendered text contains
\* "Expected: '<ephemeral name>'".
C14_EphemeralResolves ==
    last.op = "parse" =>
        LET eph == heap[last.self]
            kids == eph.segments
            word == eph.parse_grammar.template
            hit == Len(kids) = 1 /\ SameLetters(heap[kids[1]].raw, word)
        IN  /\ last.parsed # << >>
            /\ \A k \in DOMAIN last.parsed :
                  heap[last.parsed[k]].cls # "EphemeralSegment"
            /\ hit =>
                  /\ Len(last.parsed) = 1
                  /\ heap[last.parsed[1]].cls = "KeywordSegment"
                  /\ heap[last.parsed[1]].raw = heap[kids[1]].raw
            /\ ~hit =>
                  /\ Len(last.parsed) = 1
                  /\ heap[last.parsed[1]].cls = "UnparsableSegment"
                  /\ heap[last.parsed[1]].segments = kids
                  /\ ContainsExpected(stringify(heap[last.parsed[1]]),
                                      eph.ephemeral_name)

\* The unparsable test: one child "a", the grammar's word is "b", the name
\* is "foo": the result is an UnparsableSegment expecting 'foo'.
C14_Witness ==
    /\ last.op = "parse"
    /\ heap[last.self].segments = <<1>>
    /\ heap[1].raw = <<"a">>
    /\ heap[last.self].parse_grammar.template = <<"b">>
    /\ heap[last.self].ephemeral_name = "foo"
    /\ heap[last.parsed[1]].cls = "UnparsableSegment"
    /\ stringify(heap[last.parsed[1]]) = <<"unparsable", "Expected: '", "foo", "'">>

\* ------------------------------------------------------------ fixes

\* LintFix(edit_type, anchor, edit): anchor and the segments of edit are
\* references. asked is history only: the text the proposing rule handed
\* to edit(); nothing below reads it but the claims.
LintFix(edit_type, anchor, edit_segs, asked) ==
    [edit_type |-> edit_type, anchor |-> anchor, edit |-> edit_segs,
     asked |-> asked]

\* Structural equality of two fixes: the same kind, the same anchor and
\* equal replacement segments.
FixEq(f, g) ==
    /\ f.edit_type = g.edit_type
    /\ heap[f.anchor].uuid = heap[g.anchor].uuid
    /\ Len(f.edit) = Len(g.edit)
    /\ \A k \in DOMAIN f.edit : SegEq(heap[f.edit[k]], heap[g.edit[k]])

\* AnchorEditInfo() with nothing added.
EmptyInfo ==
    [delete |-> 0, replace |-> 0, create_after |-> 0, fixes |-> << >>,
     first_replace |-> None]

\* AnchorEditInfo.add(fix): a fix equal to one already held is dropped.
InfoAdd(info, f) ==
    IF \E k \in DOMAIN info.fixes : FixEq(info.fixes[k], f) THEN info
    ELSE [info EXCEPT
            !.fixes = Append(@, f),
            ![f.edit_type] = @ + 1,
            !.first_replace =
                IF f.edit_type = "replace" /\ @ = None THEN Some(f) ELSE @]

\* compute_anchor_edit_info over the first n fixes of fs.
RECURSIVE AnchorInfoUpTo(_, _)
AnchorInfoUpTo(fs, n) ==
    IF n = 0 THEN << >>
    ELSE LET prev == AnchorInfoUpTo(fs, n - 1)
             f == fs[n]
             u == heap[f.anchor].uuid
             old == IF u \in DOMAIN prev THEN prev[u] ELSE EmptyInfo
         IN  [x \in DOMAIN prev \cup {u} |->
                IF x = u THEN InfoAdd(old, f) ELSE prev[x]]

\* BaseSegment.compute_anchor_edit_info(fixes): anchor uuid -> AnchorEditInfo.
compute_anchor_edit_info(fs) == AnchorInfoUpTo(fs, Len(fs))

FixTexts == {<< >>, <<"a">>, <<"b">>}

\* The two segments of the tests' raw_seg_list, to anchor fixes on.
FixInit ==
    /\ heap = << RawSegment__init__("RawSegment", Some(<<"a">>), Some(1), None,
                                    None, None, None, None, 1),
                 RawSegment__init__("RawSegment", Some(<<"b">>), Some(2), None,
                                    None, None, None, None, 2) >>
    /\ uuid4_count = 2
    /\ last = NoCall
    /\ frame = NoFrame
    /\ trimmed = << >>
    /\ fixes = << >>

Anchors == {1, 2}

\* fixes.append(LintFix.replace(anchor, [anchor.edit(raw=x)])), or
\* LintFix.create_after: the new segment is a new object.
ProposeWithSegment(edit_type, i, x) ==
    /\ Len(fixes) < MaxFixes
    /\ heap' = Append(heap, edit(heap[i], Some(x), None, uuid4))
    /\ uuid4_count' = uuid4_count + 1
    /\ fixes' = Append(fixes, LintFix(edit_type, i, <<Len(heap) + 1>>, Some(x)))
    /\ last' = [NoCall EXCEPT !.op = "propose"]
    /\ UNCHANGED <<frame, trimmed>>

\* fixes.append(LintFix.delete(anchor)).
ProposeDelete(i) ==
    /\ Len(fixes) < MaxFixes
    /\ fixes' = Append(fixes, LintFix("delete", i, << >>, None))
    /\ last' = [NoCall EXCEPT !.op = "propose"]
    /\ UNCHANGED <<heap, uuid4_count, frame, trimmed>>

\* BaseSegment.compute_anchor_edit_info(fixes).
ComputeAnchorEditInfo ==
    /\ fixes # << >>
    /\ last.op # "compute_anchor_edit_info"
    /\ last' = [NoCall EXCEPT !.op = "compute_anchor_edit_info",
                               !.info = compute_anchor_edit_info(fixes)]
    /\ UNCHANGED <<heap, uuid4_count, frame, trimmed, fixes>>

\* The resolver's test on one anchor's AnchorEditInfo: more than one replace
\* kept, or a delete together with a replace.
is_conflict(info) ==
    \/ info.replace > 1
    \/ info.delete > 0 /\ info.replace > 0

\* The anchors of fs that the resolver reports as fix conflicts.
fix_conflicts(fs) ==
    LET infos == compute_anchor_edit_info(fs)
    IN  {u \in DOMAIN infos : is_conflict(infos[u])}

\* The resolver's pass over the proposed fixes: every conflicting anchor is
\* reported.
ReportConflicts ==
    /\ fixes # << >>
    /\ last.op # "fix_conflicts"
    /\ last' = [NoCall EXCEPT !.op = "fix_conflicts",
                               !.conflicts = fix_conflicts(fixes)]
    /\ UNCHANGED <<heap, uuid4_count, frame, trimmed, fixes>>

FixNext ==
    \/ \E t \in {"replace", "create_after"}, i \in Anchors, x \in FixTexts :
          ProposeWithSegment(t, i, x)
    \/ \E i \in Anchors : ProposeDelete(i)
    \/ ComputeAnchorEditInfo
    \/ ReportConflicts

FixSpec == FixInit /\ [][FixNext]_vars

\* ------------------------------------------------------------ fixes: claims

\* The positions in fixes of the proposals on the anchor with uuid u.
ProposalsOn(u) == {n \in DOMAIN fixes : heap[fixes[n].anchor].uuid = u}

\* The proposals on u that no earlier proposal equals, in the order seen.
FirstSeen(u) ==
    {n \in ProposalsOn(u) :
        \A m \in ProposalsOn(u) : m < n => ~FixEq(fixes[m], fixes[n])}

\* C10: compute_anchor_edit_info returns a map keyed by exactly the anchor
\* uuids of the list; an anchor's fix list holds every distinct fix once,
\* in first-seen order, with no two structurally equal fixes; two replace
\* fixes whose segments come from separate edit() calls are equal exactly
\* when the (non-empty) texts are; the replace count is the number of
\* replace fixes kept and the first replace is the first-seen replace fix.
C10_FixDeduplication ==
    last.op = "compute_anchor_edit_info" =>
        /\ DOMAIN last.info = {heap[fixes[n].anchor].uuid : n \in DOMAIN fixes}
        /\ \A u \in DOMAIN last.info :
            LET kept == last.info[u].fixes
                replaces == {k \in DOMAIN kept : kept[k].edit_type = "replace"}
            IN  /\ Len(kept) = Cardinality(FirstSeen(u))
                /\ \A k \in DOMAIN kept :
                      /\ \E n \in FirstSeen(u) :
                            /\ kept[k] = fixes[n]
                            /\ Cardinality({m \in FirstSeen(u) : m < n}) = k - 1
                /\ \A k1 \in DOMAIN kept : \A k2 \in DOMAIN kept :
                      k1 # k2 => ~FixEq(kept[k1], kept[k2])
                /\ \A n \in ProposalsOn(u) :
                      \E k \in DOMAIN kept : FixEq(kept[k], fixes[n])
                /\ \A n \in ProposalsOn(u) : \A m \in ProposalsOn(u) :
                      ( /\ fixes[n].edit_type = fixes[m].edit_type
                        /\ Truthy(fixes[n].asked)
                        /\ Truthy(fixes[m].asked) )
                      => (FixEq(fixes[n], fixes[m])
                            <=> fixes[n].asked = fixes[m].asked)
                /\ last.info[u].replace = Cardinality(replaces)
                /\ replaces = {} => last.info[u].first_replace = None
                /\ replaces # {} =>
                      \E k \in replaces :
                          /\ last.info[u].first_replace = Some(kept[k])
                          /\ \A k2 \in replaces : k <= k2

\* The test's fix list: replace with "b", the same again, replace with "a",
\* all on the first segment: two fixes are kept and the replace count is 2.
C10_Witness ==
    /\ last.op = "compute_anchor_edit_info"
    /\ Len(fixes) = 3
    /\ \A n \in DOMAIN fixes :
          fixes[n].edit_type = "replace" /\ fixes[n].anchor = 1
    /\ fixes[1].asked = Some(<<"b">>)
    /\ fixes[2].asked = Some(<<"b">>)
    /\ fixes[3].asked = Some(<<"a">>)
    /\ heap[fixes[1].edit[1]].uuid # heap[fixes[2].edit[1]].uuid
    /\ DOMAIN last.info = {heap[1].uuid}
    /\ last.info[heap[1].uuid].replace = 2
    /\ Len(last.info[heap[1].uuid].fixes) = 2
    /\ last.info[heap[1].uuid].first_replace = Some(fixes[1])

\* The orders in which the proposed fixes could have arrived.
FixOrders ==
    {p \in [DOMAIN fixes -> DOMAIN fixes] :
        \A a \in DOMAIN fixes : \A b \in DOMAIN fixes : a # b => p[a] # p[b]}

\* C11: an anchor is reported as a fix conflict exactly when its proposals
\* hold two replace fixes that are not structurally equal, or a delete and a
\* replace; two replaces made from different non-empty texts are such a
\* pair; an anchor whose replaces are all equal and that has no delete is
\* not reported; and the reported set is the same for every order of the
\* proposals.
C11_ConflictDetection ==
    last.op = "fix_conflicts" =>
        /\ \A n \in DOMAIN fixes :
            LET u == heap[fixes[n].anchor].uuid
                replaces == {m \in ProposalsOn(u) : fixes[m].edit_type = "replace"}
                deletes == {m \in ProposalsOn(u) : fixes[m].edit_type = "delete"}
            IN  /\ u \in last.conflicts <=>
                      \/ \E a \in replaces : \E b \in replaces :
                            ~FixEq(fixes[a], fixes[b])
                      \/ deletes # {} /\ replaces # {}
                /\ ( \E a \in replaces : \E b \in replaces :
                        /\ Truthy(fixes[a].asked)
                        /\ Truthy(fixes[b].asked)
                        /\ fixes[a].asked # fixes[b].asked )
                   => u \in last.conflicts
                /\ ( /\ deletes = {}
                     /\ \A a \in replaces : \A b \in replaces :
                            fixes[a].asked = fixes[b].asked )
                   => u \notin last.conflicts
        /\ last.conflicts \subseteq {heap[fixes[n].anchor].uuid : n \in DOMAIN fixes}
        /\ \A p \in FixOrders :
              fix_conflicts([n \in DOMAIN fixes |-> fixes[p[n]]]) = last.conflicts

\* The first anchor got a single replace and is not reported; the second
\* got a delete and a replace and is.
C11_Witness ==
    /\ last.op = "fix_conflicts"
    /\ Len(fixes) = 3
    /\ fixes[1].edit_type = "replace" /\ fixes[1].anchor = 1
    /\ fixes[2].edit_type = "delete" /\ fixes[2].anchor = 2
    /\ fixes[3].edit_type = "replace" /\ fixes[3].anchor = 2
    /\ last.conflicts = {heap[2].uuid}

====
